---- MODULE Spec2Model ----
(***************************************************************************)
(* Model of the concurrent job supervisor of gitlab-ci-multi-runner:       *)
(* commands/multi.go (RunCommand: feeder, worker pool, job driver,         *)
(* configuration reload, shutdown controller) and common/build.go          *)
(* (Build.AssignID, Build.Run).                                            *)
(***************************************************************************)
EXTENDS Integers, Sequences, FiniteSets, TLC

\* ------------------------------------------------------------- bounds ----

\* Largest value of Config.Concurrent a configuration file may hold.
MaxConcurrent == 2
\* Largest per-runner limit a configuration file may hold (0 = no limit).
MaxLimit == 1
\* Longest list of other builds handed to AssignID in SpecAssign.
MaxOthers == 2
\* Largest id carried by a build handed to AssignID in SpecAssign.
MaxID == 1
\* Largest number of builds registered at once in SpecReg.
MaxBuilds == 3
\* Latest modification time the configuration file may get (it starts at 0).
MaxTime == 2
\* Largest number of signals delivered on stopSignals in one run.
MaxSignals == 2

\* Worker ids are never reused (workerIndex only grows): the model stops
\* spawning once MaxWorkers ids have been handed out.
MaxWorkers == MaxConcurrent
\* In SpecWorkers one id more, for a spawn that follows a retirement.
MaxIds == MaxWorkers + 1

\* ------------------------------------------------------ the input sets ----

\* config.Runners, in file order.
RunnerList == <<"r1", "r2">>
Runners == {RunnerList[i] : i \in 1..Len(RunnerList)}
\* Project ids of builds (SpecReg, SpecAssign).
Projects == {"p1", "p2"}
\* Project ids of the jobs the job server delivers in Spec.
ServerProjects == {"p1"}
\* Signals delivered on stopSignals (signal.Notify).
StopSignals == {"SIGQUIT", "SIGTERM"}
\* The limit of each configured runner: the first runner is limited, the
\* others are not (0).
RunnerLimit == [r \in Runners |-> IF r = RunnerList[1] THEN MaxLimit ELSE 0]
\* The configurations a configuration file may hold.
Configs == [Concurrent : 1..MaxConcurrent, Limit : {RunnerLimit}]

Nil == "nil"

\* A goroutine of a process that has exited.
Killed == "killed"

\* No modification time.
NoTime == -1

\* The configuration file where it is not tracked, and the history of the
\* checks at the start.
NoFile == [mtime |-> NoTime, valid |-> FALSE, content |-> Nil]
NoWatch == [modTime |-> 0, last |-> "none", failedAt |-> NoTime]
\* The history of the checks where none is kept.
Unwatched == [NoWatch EXCEPT !.last = "off"]

\* feedRunner has not been called, or is not under observation.
NotFed == [runner |-> Nil, healthy |-> FALSE, provider |-> FALSE, canCreate |-> FALSE,
           acquire |-> "none", emitted |-> FALSE]

\* The feeder holds no slot.
NoSlot == [runner |-> Nil, limit |-> 0]

\* ------------------------------------------------------------ variables ----

VARIABLES
    config,       \* mr.config: the active configuration
    health,       \* mr.healthy: runner -> TRUE when a failure is on record
    counts,       \* buildsHelper counters: runner -> builds acquired
    builds,       \* buildsHelper.builds: the registered builds, in order
    outstanding,  \* ExecutorData acquired from providers and not released
    feeder,       \* the feedRunners goroutine
    workers,      \* the processRunners goroutines, by worker id
    starter,      \* the startWorkers goroutine
    run,          \* the Run goroutine
    ctl,          \* the service goroutine: runWait, then Stop
    stopSignal,   \* mr.stopSignal
    runSignal,    \* mr.runSignal, a channel of capacity 1
    runFinished,  \* mr.runFinished, a channel of capacity 1
    interrupting, \* interruptRun goroutine started
    aborting,     \* abortAllBuilds goroutine started
    received,     \* history: the signals received from stopSignals so far
    arrivals,     \* history: how many signals were received from stopSignals
    observe,      \* history switch: keep a job driver's calls after it returns
    others,       \* SpecAssign: the otherBuilds argument of AssignID
    assigned,     \* SpecAssign: <<the build after AssignID>>, or <<>> before
    buildRun,     \* SpecRun: one call of Build.Run, its inputs and its progress
    file,         \* SpecConfig: the configuration file: mtime, content, validity
    watch,        \* SpecConfig: mr.config.ModTime, and history of the checks
    fed           \* observed runs: what the last call of feedRunner met and did

sysvars == <<config, health, counts, outstanding, feeder, workers, starter, run,
             ctl, stopSignal, runSignal, runFinished, interrupting, aborting,
             received, arrivals, observe>>
vars == <<sysvars, builds, others, assigned, buildRun, file, watch, fed>>

\* ------------------------------------------------- common/build.go ----

\* RunnerConfig.ShortDescription: the runner's short identity.
ShortDescription(r) == r

\* The three maps built by the first loop of AssignID, as a record of sets
\* of the keys set to true.
RECURSIVE UsedIDs(_, _, _)
UsedIDs(b, otherBuilds, i) ==
    IF i > Len(otherBuilds) THEN [globals |-> {}, runners |-> {}, projectRunners |-> {}]
    ELSE LET rest == UsedIDs(b, otherBuilds, i + 1)
             otherBuild == otherBuilds[i]
             g == rest.globals \cup {otherBuild.GlobalID}
         IN IF ShortDescription(otherBuild.Runner) # ShortDescription(b.Runner)
            THEN [rest EXCEPT !.globals = g]
            ELSE IF otherBuild.ProjectID # b.ProjectID
                 THEN [rest EXCEPT !.globals = g,
                                   !.runners = @ \cup {otherBuild.RunnerID}]
                 ELSE [rest EXCEPT !.globals = g,
                                   !.runners = @ \cup {otherBuild.RunnerID},
                                   !.projectRunners = @ \cup {otherBuild.ProjectRunnerID}]

FirstFree_AfterLargest(used, i) ==
    IF used = {} THEN i ELSE 1 + (CHOOSE n \in used : \A m \in used : m <= n)

\* for i := 0; ; i++ { if !used[i] { return i } }
RECURSIVE FirstFree(_, _)
FirstFree(used, i) == IF i \notin used THEN i ELSE FirstFree(used, i + 1)

AssignID_GlobalsOnlySameRunner(b, otherBuilds) ==
    LET same == SelectSeq(otherBuilds,
                    LAMBDA o : ShortDescription(o.Runner) = ShortDescription(b.Runner))
        used == UsedIDs(b, same, 1)
    IN [b EXCEPT !.GlobalID = FirstFree(used.globals, 0),
                 !.RunnerID = FirstFree(used.runners, 0),
                 !.ProjectRunnerID = FirstFree(used.projectRunners, 0)]

AssignID_ProjectScopeIgnoresProject(b, otherBuilds) ==
    LET used == UsedIDs(b, otherBuilds, 1)
    IN [b EXCEPT !.GlobalID = FirstFree(used.globals, 0),
                 !.RunnerID = FirstFree(used.runners, 0),
                 !.ProjectRunnerID = FirstFree(used.runners, 0)]

\* Build.AssignID
AssignID(b, otherBuilds) ==
    LET used == UsedIDs(b, otherBuilds, 1)
    IN [b EXCEPT !.GlobalID = FirstFree(used.globals, 0),
                 !.RunnerID = FirstFree(used.runners, 0),
                 !.ProjectRunnerID = FirstFree(used.projectRunners, 0)]

\* Build.ProjectUniqueName: Sprintf("runner-%s-project-%d-concurrent-%d", ...).
\* The literal separators and the decimal numbers make the string determine
\* its three arguments, so it is kept as the sequence of its parts.
ProjectUniqueName(b) ==
    <<"runner-", ShortDescription(b.Runner), "-project-", b.ProjectID,
      "-concurrent-", b.ProjectRunnerID>>

\* common.NewBuild: a build of project p for runner r, ids not yet assigned.
\* owner names the job driver that holds the build.
NewBuild(owner, r, p) ==
    [owner |-> owner, Runner |-> r, ProjectID |-> p,
     GlobalID |-> 0, RunnerID |-> 0, ProjectRunnerID |-> 0]

\* ------------------------------------------------- the builds registry ----

\* buildsHelper.addBuild: assign ids against the registered builds, append.
addBuild(bs, b) == Append(bs, AssignID(b, bs))

\* buildsHelper.removeBuild
removeBuild(bs, owner) == SelectSeq(bs, LAMBDA o : o.owner # owner)

RECURSIVE SumOver(_, _)
SumOver(f, S) ==
    IF S = {} THEN 0
    ELSE LET x == CHOOSE y \in S : TRUE IN f[x] + SumOver(f, S \ {x})

\* buildsHelper: the global count.
totalBuilds(cs) == SumOver(cs, Runners)

\* buildsHelper.acquire: the test it makes.
canAcquire(cs, cfg, slot) ==
    /\ totalBuilds(cs) < cfg.Concurrent
    /\ (slot.limit = 0 \/ cs[slot.runner] < slot.limit)


\* buildsHelper.acquire: the counters after a successful acquire.
acquire(cs, slot) == [cs EXCEPT ![slot.runner] = @ + 1]

\* buildsHelper.release: the counters after a release.
release(cs, r) == [cs EXCEPT ![r] = @ - 1]

\* ------------------------------------------------------ health tracker ----

\* healthHelper.makeHealthy(id, ok): ok clears the entry, a failure records it.
makeHealthy(h, r, ok) == [h EXCEPT ![r] = ~ok]

\* ------------------------------------------------- Build.Run (build.go) ----

Call(name, arg) == <<name, arg>>

Range(seq) == {seq[i] : i \in 1..Len(seq)}

BuildRunFinish_CleanupFirst(calls, err) ==
    [calls |-> calls \o <<Call("Cleanup", Nil), Call("Finish", err)>>,
     err |-> err, waiting |-> FALSE]

\* Build.Run from the call of executor.Finish to its return.
BuildRunFinish(calls, err) ==
    [calls |-> calls \o <<Call("Finish", err), Call("Cleanup", Nil)>>,
     err |-> err, waiting |-> FALSE]

\* Build.Run up to the call of executor.Wait: found says whether NewExecutor
\* returned an executor, prepareErr and startErr are what Prepare and Start
\* return.
BuildRunStart(calls, found, prepareErr, startErr) ==
    IF ~found
    THEN [calls |-> calls \o <<Call("WriteString", Nil), Call("SendBuildLog", Nil)>>,
          err |-> "failed", waiting |-> FALSE]
    ELSE IF prepareErr # Nil
    THEN BuildRunFinish(calls \o <<Call("Prepare", prepareErr)>>, prepareErr)
    ELSE IF startErr # Nil
    THEN BuildRunFinish(calls \o <<Call("Prepare", Nil), Call("Start", startErr)>>,
                        startErr)
    ELSE [calls |-> calls \o <<Call("Prepare", Nil), Call("Start", Nil),
                               Call("Wait", Nil)>>,
          err |-> Nil, waiting |-> TRUE]

\* The errors an executor call may return, besides nil.
Errors == {"failed", "cancelled", "timeout"}

\* One call of Build.Run: whether NewExecutor gives an executor, what
\* Prepare, Start and Wait return when called, the calls made so far, the
\* error returned and where the call stands.
RunOf(found, prepareErr, startErr, waitErr) ==
    [found |-> found, prepareErr |-> prepareErr, startErr |-> startErr,
     waitErr |-> waitErr, calls |-> <<>>, err |-> Nil, pc |-> "called"]

NotRun == [RunOf(TRUE, Nil, Nil, Nil) EXCEPT !.pc = "none"]

\* ---------------------------------------- the job driver: processRunner ----

\* A worker outside processRunner.
WorkerAt(pc) ==
    [pc |-> pc, runner |-> Nil, limit |-> 0, project |-> Nil, err |-> Nil,
     defers |-> <<>>, calls |-> <<>>]

\* The deferred calls of processRunner, most recent first, as they stand
\* after each defer statement. A deferred call's arguments are evaluated
\* when the defer statement runs.
DefersAtEntry_NoRelease == <<>>

\* defer runner.Release()
DefersAtEntry == <<Call("Release", Nil)>>

DefersAfterAcquire_NoRelease == DefersAtEntry

\* defer mr.buildsHelper.release(runner)
DefersAfterAcquire == <<Call("release", Nil)>> \o DefersAtEntry

\* defer trace.Fail(err): err is the named result as it is at this statement.
DefersAfterTrace(err) == <<Call("trace.Fail", err)>> \o DefersAfterAcquire

DefersAfterAddBuild_NoRemove(err) == DefersAfterTrace(err)

\* defer mr.buildsHelper.removeBuild(build)
DefersAfterAddBuild(err) == <<Call("removeBuild", Nil)>> \o DefersAfterTrace(err)

\* The effect of one deferred call of worker w, whose slot is of runner r, on
\* the shared state st = [counts, builds, outstanding, calls].
ApplyDeferred(st, w, r, call) ==
    LET logged == [st EXCEPT !.calls = Append(@, call)]
    IN CASE call[1] = "Release"     -> [logged EXCEPT !.outstanding = @ - 1]
         [] call[1] = "release"     -> [logged EXCEPT !.counts = release(@, r)]
         [] call[1] = "removeBuild" -> [logged EXCEPT !.builds = removeBuild(@, w)]
         [] OTHER                   -> logged

\* The deferred calls run at return, last deferred first.
RECURSIVE RunDeferred(_, _, _, _)
RunDeferred(st, w, r, defers) ==
    IF defers = <<>> THEN st
    ELSE RunDeferred(ApplyDeferred(st, w, r, Head(defers)), w, r, Tail(defers))

Shared(calls) ==
    [counts |-> counts, builds |-> builds, outstanding |-> outstanding, calls |-> calls]

\* processRunner returns err: the deferred calls run, the worker is back in
\* processRunners (runtime.GC, then the loop test).
Return(w, r, st, defers, err) ==
    LET end == RunDeferred(st, w, r, defers)
    IN /\ counts' = end.counts
       /\ builds' = end.builds
       /\ outstanding' = end.outstanding
       /\ workers' = [workers EXCEPT ![w] =
                         IF observe
                         THEN [WorkerAt("head") EXCEPT !.err = err, !.calls = end.calls]
                         ELSE WorkerAt("head")]

AcquireRefused_Never(cs, cfg, slot) == FALSE

\* if !mr.buildsHelper.acquire(runner) { return }
AcquireRefused(cs, cfg, slot) == ~canAcquire(cs, cfg, slot)

ProcessRunnerEnter_IgnoresRefusal(w, slot) ==
    /\ counts' = acquire(counts, slot)
    /\ workers' = [workers EXCEPT ![w] =
           [pc |-> "getbuild", runner |-> slot.runner, limit |-> slot.limit,
            project |-> Nil, err |-> Nil, defers |-> DefersAfterAcquire,
            calls |-> <<Call("acquire", IF AcquireRefused(counts, config, slot)
                                        THEN "refused" ELSE "ok")>>]]
    /\ UNCHANGED <<builds, outstanding>>

\* processRunner from its entry to the call of GetBuild, for the slot received.
ProcessRunnerEnter(w, slot) ==
    IF AcquireRefused(counts, config, slot)
    THEN Return(w, slot.runner, Shared(<<Call("acquire", "refused")>>),
                DefersAtEntry, Nil)
    ELSE /\ counts' = acquire(counts, slot)
         /\ workers' = [workers EXCEPT ![w] =
                [pc |-> "getbuild", runner |-> slot.runner, limit |-> slot.limit,
                 project |-> Nil, err |-> Nil, defers |-> DefersAfterAcquire,
                 calls |-> <<Call("acquire", "ok")>>]]
         /\ UNCHANGED <<builds, outstanding>>


Alive == ctl.pc # "exited"

\* mr.stopSignal is written by the service goroutine (runWait, Stop) and read
\* by the other goroutines with no synchronisation: a read gives the value
\* now stored or an earlier one. Seen(sig) are the outcomes of a test against
\* nil when sig is stored: the truth, or still nil.
Seen(sig) == {Nil, sig}

\* ------------------------------------------------------------ the feeder ----

FeederAdvance_FirstOnly(f) ==
    [pc |-> "head", i |-> 0, limits |-> f.limits, slot |-> NoSlot]

\* The feeder moves on to the next runner of its pass; after the last one it
\* sleeps CheckInterval and is back at the loop test of feedRunners.
FeederAdvance(f) ==
    IF f.i < Len(RunnerList)
    THEN [f EXCEPT !.pc = "feed", !.i = f.i + 1, !.slot = NoSlot]
    ELSE [pc |-> "head", i |-> 0, limits |-> f.limits, slot |-> NoSlot]

\* for mr.stopSignal == nil
FeedRunnersContinue(sig) == sig = Nil

\* feedRunners: the loop test, then config := mr.config.
FeedRunnersHead ==
    /\ Alive
    /\ feeder.pc = "head"
    /\ \E seen \in Seen(stopSignal) :
          feeder' = IF FeedRunnersContinue(seen)
                    THEN [pc |-> "feed", i |-> 1, limits |-> config.Limit, slot |-> NoSlot]
                    ELSE [feeder EXCEPT !.pc = "exited"]
    /\ UNCHANGED <<config, health, counts, builds, outstanding, workers, starter, run,
                   ctl, stopSignal, runSignal, runFinished, interrupting, aborting,
                   received, arrivals, others, assigned, buildRun, fed, file, watch, observe>>

\* Whether feedRunner goes on to provider.Acquire: the runner is healthy and
\* GetExecutor gave a provider.
FeedRunnerAcquires_Unhealthy(healthy, provider) == provider

FeedRunnerAcquires(healthy, provider) == healthy /\ provider

\* feedRunner for the runner at feeder.i, up to the send on the slot channel.
\* isHealthy: a runner with a failure on record is skipped until
\* HealthCheckInterval has elapsed (elapsed), then its entry is cleared.
\* provider says whether GetExecutor(runner.Executor) gave a provider,
\* canCreate what that provider's CanCreate would answer (feedRunner does
\* not ask), acquired whether provider.Acquire succeeded.
FeedRunner ==
    /\ Alive
    /\ feeder.pc = "feed"
    /\ LET r == RunnerList[feeder.i] IN
       \E elapsed \in BOOLEAN, provider \in BOOLEAN, canCreate \in BOOLEAN,
          acquired \in BOOLEAN :
          LET healthy == ~health[r] \/ elapsed
              acquires == FeedRunnerAcquires(healthy, provider)
              emits == acquires /\ acquired
          IN \* an input that this call does not come to read has one value
             /\ ~health[r] => ~elapsed
             /\ ~healthy => provider
             /\ ~acquires => (canCreate /\ acquired)
             /\ health' = IF healthy THEN [health EXCEPT ![r] = FALSE] ELSE health
             /\ IF emits
                THEN /\ outstanding' = outstanding + 1
                     /\ feeder' = [feeder EXCEPT !.pc = "send",
                            !.slot = [runner |-> r, limit |-> feeder.limits[r]]]
                ELSE /\ feeder' = FeederAdvance(feeder)
                     /\ UNCHANGED outstanding
             /\ fed' = IF observe
                       THEN [runner |-> r, healthy |-> healthy, provider |-> provider,
                             canCreate |-> canCreate,
                             acquire |-> IF ~acquires THEN "none"
                                         ELSE IF acquired THEN "ok" ELSE "failed",
                             emitted |-> emits]
                       ELSE fed
    /\ UNCHANGED <<config, counts, builds, workers, starter, run,
                   ctl, stopSignal, runSignal, runFinished, interrupting, aborting,
                   received, arrivals, others, assigned, buildRun, file, watch, observe>>

\* ----------------------------------------------------------- the workers ----

\* runners <- slot (feedRunner) meets case runner := <-runners (processRunners):
\* worker w enters processRunner with the slot.
ReceiveSlot(w) ==
    /\ Alive
    /\ feeder.pc = "send"
    /\ workers[w].pc = "select"
    /\ ProcessRunnerEnter(w, feeder.slot)
    /\ feeder' = FeederAdvance(feeder)
    /\ UNCHANGED <<config, health, starter, run,
                   ctl, stopSignal, runSignal, runFinished, interrupting, aborting,
                   received, arrivals, others, assigned, buildRun, fed, file, watch, observe>>

\* processRunner from GetBuild to the call of executor.Wait inside build.Run.
\* job is the project of the job GetBuild returned, or Nil; healthy its flag.
GetBuild(w) ==
    /\ Alive
    /\ workers[w].pc = "getbuild"
    /\ LET me == workers[w]
           r == me.runner IN
       \E job \in ServerProjects \cup {Nil}, healthy \in BOOLEAN,
          found \in BOOLEAN, prepareErr \in {Nil, "failed"}, startErr \in {Nil, "failed"} :
          /\ job # Nil => healthy
          /\ job = Nil => (found /\ prepareErr = Nil /\ startErr = Nil)
          /\ ~found => prepareErr = Nil
          /\ (~found \/ prepareErr # Nil) => startErr = Nil
          /\ health' = makeHealthy(health, r, healthy)
          /\ LET got == me.calls \o <<Call("GetBuild", IF job = Nil THEN Nil ELSE job),
                                      Call("makeHealthy", IF healthy THEN "true" ELSE "false")>>
             IN IF job = Nil
                THEN Return(w, r, Shared(got), me.defers, Nil)
                ELSE LET opened == got \o <<Call("ProcessBuild", job)>>
                         defers == DefersAfterAddBuild(me.err)
                         added == addBuild(builds, NewBuild(w, r, job))
                         ran == BuildRunStart(opened \o <<Call("addBuild", Nil)>>,
                                              found, prepareErr, startErr)
                     IN IF ran.waiting
                        THEN /\ builds' = added
                             /\ workers' = [workers EXCEPT ![w] =
                                    [me EXCEPT !.pc = "wait", !.project = job,
                                               !.defers = defers, !.calls = ran.calls]]
                             /\ UNCHANGED <<counts, outstanding>>
                        ELSE Return(w, r, [Shared(ran.calls) EXCEPT !.builds = added],
                                    defers, ran.err)
    /\ UNCHANGED <<config, feeder, starter, run,
                   ctl, stopSignal, runSignal, runFinished, interrupting, aborting,
                   received, arrivals, others, assigned, buildRun, fed, file, watch, observe>>

\* executor.Wait returns waitErr; build.Run finishes and processRunner returns.
WaitReturns(w, waitErr) ==
    LET me == workers[w]
        ran == BuildRunFinish(me.calls, waitErr)
    IN Return(w, me.runner, Shared(ran.calls), me.defers, ran.err)

\* The job of worker w terminates on its own.
JobEnds(w) ==
    /\ Alive
    /\ workers[w].pc = "wait"
    /\ \E waitErr \in {Nil, "failed"} : WaitReturns(w, waitErr)
    /\ UNCHANGED <<config, health, feeder, starter, run,
                   ctl, stopSignal, runSignal, runFinished, interrupting, aborting,
                   received, arrivals, others, assigned, buildRun, fed, file, watch, observe>>

\* mr.abortBuilds <- mr.stopSignal (abortAllBuilds) meets the executor of
\* worker w waiting on abortBuilds: Wait returns early, the job is cancelled.
AbortBuild(w) ==
    /\ Alive
    /\ aborting
    /\ workers[w].pc = "wait"
    /\ WaitReturns(w, "cancelled")
    /\ UNCHANGED <<config, health, feeder, starter, run,
                   ctl, stopSignal, runSignal, runFinished, interrupting, aborting,
                   received, arrivals, others, assigned, buildRun, fed, file, watch, observe>>

\* processRunners: the loop test; past the loop the worker waits on stopWorker.
WorkerHead(w) ==
    /\ Alive
    /\ workers[w].pc = "head"
    /\ \E seen \in Seen(stopSignal) :
          workers' = [workers EXCEPT ![w] =
                         WorkerAt(IF seen = Nil THEN "select" ELSE "final")]
    /\ UNCHANGED <<config, health, counts, builds, outstanding, feeder, starter, run,
                   ctl, stopSignal, runSignal, runFinished, interrupting, aborting,
                   received, arrivals, others, assigned, buildRun, fed, file, watch, observe>>

OnStopWorker_Anywhere(w) == workers[w].pc \notin {"unborn", "exited", Killed}

\* A worker that can receive from stopWorker: in its select or past its loop.
OnStopWorker(w) == workers[w].pc \in {"select", "final"}

\* startWorkers: the loop test.
StartWorkersHead ==
    /\ Alive
    /\ starter = "head"
    /\ \E seen \in Seen(stopSignal) :
          starter' = IF seen = Nil THEN "recv" ELSE "exited"
    /\ UNCHANGED <<config, health, counts, builds, outstanding, feeder, workers, run,
                   ctl, stopSignal, runSignal, runFinished, interrupting, aborting,
                   received, arrivals, others, assigned, buildRun, fed, file, watch, observe>>


\* ------------------------------------------------------ the Run goroutine ----

\* buildLimit := mr.config.Concurrent. Only Run itself replaces mr.config, so
\* the value read at the head of updateWorkers is the active one throughout.
buildLimit == config.Concurrent

\* Run: the test of its main loop.
RunHead ==
    /\ Alive
    /\ run.pc = "head"
    /\ \E seen \in Seen(stopSignal) :
          run' = [run EXCEPT !.pc = IF seen = Nil THEN "updateWorkers" ELSE "drain"]
    /\ UNCHANGED <<config, health, counts, builds, outstanding, feeder, workers, starter,
                   ctl, stopSignal, runSignal, runFinished, interrupting, aborting,
                   received, arrivals, others, assigned, buildRun, fed, file, watch, observe>>

\* updateWorkers, first loop: stopWorker <- true, received by worker w.
RetireWorker(w) ==
    /\ Alive
    /\ run.pc = "updateWorkers"
    /\ run.currentWorkers > buildLimit
    /\ OnStopWorker(w)
    /\ workers' = [workers EXCEPT ![w] = WorkerAt("exited")]
    /\ run' = [run EXCEPT !.currentWorkers = @ - 1]
    /\ UNCHANGED <<config, health, counts, builds, outstanding, feeder, starter,
                   ctl, stopSignal, runSignal, runFinished, interrupting, aborting,
                   received, arrivals, others, assigned, buildRun, fed, file, watch, observe>>

\* updateWorkers, second loop: startWorker <- workerIndex, received by
\* startWorkers, which starts processRunners under that id.
SpawnWorker ==
    /\ Alive
    /\ run.pc = "updateWorkers"
    /\ run.currentWorkers < buildLimit
    /\ run.workerIndex < run.ids
    /\ starter = "recv"
    /\ workers' = [workers EXCEPT ![run.workerIndex] = WorkerAt("head")]
    /\ starter' = "head"
    /\ run' = [run EXCEPT !.currentWorkers = @ + 1, !.workerIndex = @ + 1]
    /\ UNCHANGED <<config, health, counts, builds, outstanding, feeder,
                   ctl, stopSignal, runSignal, runFinished, interrupting, aborting,
                   received, arrivals, others, assigned, buildRun, fed, file, watch, observe>>

UpdateWorkersDone_Early ==
    /\ Alive
    /\ run.pc = "updateWorkers"
    /\ run' = [run EXCEPT !.pc = "updateConfig"]
    /\ UNCHANGED <<config, health, counts, builds, outstanding, feeder, workers, starter,
                   ctl, stopSignal, runSignal, runFinished, interrupting, aborting,
                   received, arrivals, others, assigned, buildRun, fed, file, watch, observe>>

\* updateWorkers returns nil: both loops are over.
UpdateWorkersDone ==
    /\ Alive
    /\ run.pc = "updateWorkers"
    /\ run.currentWorkers = buildLimit
    /\ run' = [run EXCEPT !.pc = "updateConfig"]
    /\ UNCHANGED <<config, health, counts, builds, outstanding, feeder, workers, starter,
                   ctl, stopSignal, runSignal, runFinished, interrupting, aborting,
                   received, arrivals, others, assigned, buildRun, fed, file, watch, observe>>

\* case signaled := <-mr.runSignal, in a select of updateWorkers or in the one
\* of updateConfig: Run leaves its main loop.
RunSignaled ==
    /\ Alive
    /\ \/ run.pc = "updateWorkers" /\ run.currentWorkers # buildLimit
       \/ run.pc = "updateConfig"
    /\ runSignal # <<>>
    /\ runSignal' = <<>>
    /\ run' = [run EXCEPT !.pc = "drain"]
    /\ UNCHANGED <<config, health, counts, builds, outstanding, feeder, workers, starter,
                   ctl, stopSignal, interrupting, runFinished, aborting,
                   received, arrivals, others, assigned, buildRun, fed, file, watch, observe>>

\* The history of the checks after one that ended as outcome, where it is kept.
Watched(outcome) == IF watch.last = "off" THEN watch ELSE [watch EXCEPT !.last = outcome]

loadConfig_KeepsHealth(c) ==
    /\ config' = c
    /\ health' = health

\* loadConfig succeeded: the active configuration is replaced, mr.healthy = nil.
loadConfig(c) ==
    /\ config' = c
    /\ health' = [r \in Runners |-> FALSE]

\* updateConfig, case <-time.After(ReloadConfigInterval): checkConfig, with
\* the file left to the environment. The file is not newer (changed = FALSE),
\* or it is and loading it gives c (loads = TRUE), or it is and loading it
\* fails. CheckConfigFile is the same code on a file that is tracked.
CheckConfig ==
    /\ Alive
    /\ run.pc = "updateConfig"
    /\ \E changed \in BOOLEAN, loads \in BOOLEAN, c \in Configs :
          /\ ~(changed /\ loads) => c = config
          /\ ~changed => ~loads
          /\ IF changed /\ loads THEN loadConfig(c) ELSE UNCHANGED <<config, health>>
          /\ watch' = Watched(IF ~changed THEN "check:skip"
                              ELSE IF loads THEN "check:load" ELSE "check:fail")
    /\ run' = [run EXCEPT !.pc = "head"]
    /\ UNCHANGED <<counts, builds, outstanding, feeder, workers, starter,
                   ctl, stopSignal, runSignal, runFinished, interrupting, aborting,
                   received, arrivals, others, assigned, buildRun, fed, file, observe>>

\* updateConfig, case <-mr.reloadSignal (SIGHUP): loadConfig, which gives c
\* (loads = TRUE) or fails.
ReloadSignal ==
    /\ Alive
    /\ run.pc = "updateConfig"
    /\ \E loads \in BOOLEAN, c \in Configs :
          /\ ~loads => c = config
          /\ IF loads THEN loadConfig(c) ELSE UNCHANGED <<config, health>>
          /\ watch' = Watched(IF loads THEN "hup:load" ELSE "hup:fail")
    /\ run' = [run EXCEPT !.pc = "head"]
    /\ UNCHANGED <<counts, builds, outstanding, feeder, workers, starter,
                   ctl, stopSignal, runSignal, runFinished, interrupting, aborting,
                   received, arrivals, others, assigned, buildRun, fed, file, observe>>

\* The configuration file is written or touched: any modification time, any
\* content, valid or not. A changed modification time ends the memory of the
\* load that failed at the former one.
WriteFile ==
    /\ Alive
    /\ \E t \in 0..MaxTime, v \in BOOLEAN, c \in Configs :
          /\ file' = [mtime |-> t, valid |-> v, content |-> c]
          /\ file' # file
          /\ watch' = IF t # file.mtime THEN [watch EXCEPT !.failedAt = NoTime] ELSE watch
    /\ UNCHANGED <<config, health, counts, builds, outstanding, feeder, workers, starter,
                   run, ctl, stopSignal, runSignal, runFinished, interrupting, aborting,
                   received, arrivals, others, assigned, buildRun, fed, observe>>

Newer_OrSame(modTime, mtime) == modTime <= mtime

\* mr.config.ModTime.Before(info.ModTime())
Newer(modTime, mtime) == modTime < mtime

\* mr.loadConfig() on the tracked file: a valid file replaces the active
\* configuration, whose ModTime is the file's; an invalid one leaves it.
LoadFile ==
    IF file.valid
    THEN loadConfig(file.content)
    ELSE UNCHANGED <<config, health>>

\* updateConfig, case <-time.After(ReloadConfigInterval): checkConfig on the
\* tracked file. os.Stat fails, or the file is not newer than the loaded
\* configuration, or it is loaded, or loading it fails and
\* mr.config.ModTime = info.ModTime().
CheckConfigFile ==
    /\ Alive
    /\ run.pc = "updateConfig"
    /\ \E statOk \in BOOLEAN :
          IF ~statOk
          THEN /\ UNCHANGED <<config, health>>
               /\ watch' = [watch EXCEPT !.last = "check:stat"]
          ELSE IF ~Newer(watch.modTime, file.mtime)
          THEN /\ UNCHANGED <<config, health>>
               /\ watch' = [watch EXCEPT !.last = "check:skip"]
          ELSE /\ LoadFile
               /\ watch' = IF file.valid
                           THEN [watch EXCEPT !.modTime = file.mtime, !.last = "check:load"]
                           ELSE [modTime |-> file.mtime, last |-> "check:fail",
                                 failedAt |-> file.mtime]
    /\ run' = [run EXCEPT !.pc = "head"]
    /\ UNCHANGED <<counts, builds, outstanding, feeder, workers, starter,
                   ctl, stopSignal, runSignal, runFinished, interrupting, aborting,
                   received, arrivals, others, assigned, buildRun, fed, file, observe>>

\* updateConfig, case <-mr.reloadSignal (SIGHUP): loadConfig on the tracked
\* file, whatever its modification time.
ReloadSignalFile ==
    /\ Alive
    /\ run.pc = "updateConfig"
    /\ LoadFile
    /\ watch' = IF file.valid
                THEN [watch EXCEPT !.modTime = file.mtime, !.last = "hup:load"]
                ELSE [watch EXCEPT !.last = "hup:fail"]
    /\ run' = [run EXCEPT !.pc = "head"]
    /\ UNCHANGED <<counts, builds, outstanding, feeder, workers, starter,
                   ctl, stopSignal, runSignal, runFinished, interrupting, aborting,
                   received, arrivals, others, assigned, buildRun, fed, file, observe>>

\* Run past its main loop: stopWorker <- true, received by worker w.
DrainWorker(w) ==
    /\ Alive
    /\ run.pc = "drain"
    /\ run.currentWorkers > 0
    /\ OnStopWorker(w)
    /\ workers' = [workers EXCEPT ![w] = WorkerAt("exited")]
    /\ run' = [run EXCEPT !.currentWorkers = @ - 1]
    /\ UNCHANGED <<config, health, counts, builds, outstanding, feeder, starter,
                   ctl, stopSignal, runSignal, runFinished, interrupting, aborting,
                   received, arrivals, others, assigned, buildRun, fed, file, watch, observe>>

RunFinishes_WithoutDrain ==
    /\ Alive
    /\ run.pc = "drain"
    /\ run' = [run EXCEPT !.pc = "done"]
    /\ runFinished' = TRUE
    /\ UNCHANGED <<config, health, counts, builds, outstanding, feeder, workers, starter,
                   ctl, stopSignal, runSignal, interrupting, aborting,
                   received, arrivals, others, assigned, buildRun, fed, file, watch, observe>>

\* mr.runFinished <- true
RunFinishes ==
    /\ Alive
    /\ run.pc = "drain"
    /\ run.currentWorkers = 0
    /\ run' = [run EXCEPT !.pc = "done"]
    /\ runFinished' = TRUE
    /\ UNCHANGED <<config, health, counts, builds, outstanding, feeder, workers, starter,
                   ctl, stopSignal, runSignal, interrupting, aborting,
                   received, arrivals, others, assigned, buildRun, fed, file, watch, observe>>

\* ------------------------------------------------ the shutdown controller ----

\* interruptRun: mr.runSignal <- mr.stopSignal, whenever the channel has room.
\* The value sent is one of those stored in mr.stopSignal since Stop began.
InterruptRun ==
    /\ Alive
    /\ interrupting
    /\ runSignal = <<>>
    /\ \E sig \in received : runSignal' = <<sig>>
    /\ UNCHANGED <<config, health, counts, builds, outstanding, feeder, workers, starter,
                   run, ctl, stopSignal, runFinished, interrupting, aborting,
                   received, arrivals, others, assigned, buildRun, fed, file, watch, observe>>

GracefulWhile_Never(sig) == FALSE

\* for mr.stopSignal == syscall.SIGQUIT
GracefulWhile(sig) == sig = "SIGQUIT"

AfterSignal_NoAborter(sig) ==
    /\ ctl' = [ctl EXCEPT !.pc = IF sig = "SIGQUIT" THEN "graceful" ELSE "shutdown"]
    /\ UNCHANGED aborting

\* handleGracefulShutdown at its loop test with stopSignal = sig: it stays in
\* the graceful phase, or it returns an error and Stop calls handleShutdown,
\* which starts abortAllBuilds.
AfterSignal(sig) ==
    IF GracefulWhile(sig)
    THEN /\ ctl' = [ctl EXCEPT !.pc = "graceful"]
         /\ UNCHANGED aborting
    ELSE /\ ctl' = [ctl EXCEPT !.pc = "shutdown"]
         /\ aborting' = TRUE

\* runWait: mr.stopSignal = <-mr.stopSignals; then Stop: go interruptRun(),
\* handleGracefulShutdown.
RunWait(sig) ==
    /\ ctl.pc = "runWait"
    /\ stopSignal' = sig
    /\ received' = received \cup {sig}
    /\ arrivals < MaxSignals
    /\ arrivals' = arrivals + 1
    /\ interrupting' = TRUE
    /\ AfterSignal(sig)
    /\ UNCHANGED <<config, health, counts, builds, outstanding, feeder, workers, starter,
                   run, runSignal, runFinished, others, assigned, buildRun, fed, file, watch, observe>>

\* handleGracefulShutdown, case mr.stopSignal = <-mr.stopSignals.
GracefulSignal(sig) ==
    /\ ctl.pc = "graceful"
    /\ stopSignal' = sig
    /\ received' = received \cup {sig}
    /\ arrivals < MaxSignals
    /\ arrivals' = arrivals + 1
    /\ AfterSignal(sig)
    /\ UNCHANGED <<config, health, counts, builds, outstanding, feeder, workers, starter,
                   run, runSignal, runFinished, interrupting, others, assigned, buildRun, fed, file, watch, observe>>

\* Stop returns result: the service ends and the process exits, and with it
\* every goroutine, channel and in-memory structure. What the providers
\* handed out (outstanding) is outside the process and stays as it is.
StopReturns(result) ==
    /\ ctl' = [pc |-> "exited", result |-> result]
    /\ feeder' = [pc |-> Killed, i |-> 0, limits |-> RunnerLimit, slot |-> NoSlot]
    /\ workers' = [w \in DOMAIN workers |-> WorkerAt(Killed)]
    /\ starter' = Killed
    /\ run' = [pc |-> Killed, currentWorkers |-> 0, workerIndex |-> 0, ids |-> run.ids]
    /\ runSignal' = <<>>
    /\ runFinished' = FALSE
    /\ interrupting' = FALSE
    /\ aborting' = FALSE
    /\ counts' = [r \in Runners |-> 0]
    /\ builds' = <<>>
    /\ health' = [r \in Runners |-> FALSE]

\* handleGracefulShutdown, case <-mr.runFinished: Stop returns nil.
GracefulFinished ==
    /\ ctl.pc = "graceful"
    /\ runFinished
    /\ StopReturns(Nil)
    /\ UNCHANGED <<config, outstanding, stopSignal, received, arrivals, others, assigned, buildRun, fed, file, watch,
                   observe>>

\* fmt.Errorf("forced exit: %v", mr.stopSignal)
ForcedExit(sig) == "forced exit: " \o sig

\* errors.New("shutdown timedout")
TimedOut == "shutdown timedout"

\* handleShutdown, case mr.stopSignal = <-mr.stopSignals.
ShutdownSignal(sig) ==
    /\ ctl.pc = "shutdown"
    /\ stopSignal' = sig
    /\ received' = received \cup {sig}
    /\ arrivals < MaxSignals
    /\ arrivals' = arrivals + 1
    /\ StopReturns(ForcedExit(sig))
    /\ UNCHANGED <<config, outstanding, others, assigned, buildRun, fed, file, watch, observe>>

ShutdownTimeout_WaitsForRun ==
    /\ ctl.pc = "shutdown"
    /\ runFinished
    /\ StopReturns(TimedOut)
    /\ UNCHANGED <<config, outstanding, stopSignal, received, arrivals, others, assigned, buildRun, fed, file, watch,
                   observe>>

\* handleShutdown, case <-time.After(ShutdownTimeout).
ShutdownTimeout ==
    /\ ctl.pc = "shutdown"
    /\ StopReturns(TimedOut)
    /\ UNCHANGED <<config, outstanding, stopSignal, received, arrivals, others, assigned, buildRun, fed, file, watch,
                   observe>>

\* handleShutdown, case <-mr.runFinished.
ShutdownFinished ==
    /\ ctl.pc = "shutdown"
    /\ runFinished
    /\ StopReturns(Nil)
    /\ UNCHANGED <<config, outstanding, stopSignal, received, arrivals, others, assigned, buildRun, fed, file, watch,
                   observe>>

\* ------------------------------------------------------ the specification ----

WorkerIds == 0..(MaxIds - 1)
\* The ids handed out where spawning stops at MaxWorkers ids.
PoolIds == 0..(MaxWorkers - 1)

\* Start: the channels are made, the configuration c is loaded, Run is
\* started and the service waits in runWait.
StartedWith(c, ids) ==
    /\ config = c
    /\ health = [r \in Runners |-> FALSE]
    /\ counts = [r \in Runners |-> 0]
    /\ builds = <<>>
    /\ outstanding = 0
    /\ feeder = [pc |-> "head", i |-> 0, limits |-> RunnerLimit, slot |-> NoSlot]
    /\ workers = [w \in WorkerIds |-> WorkerAt("unborn")]
    /\ starter = "head"
    /\ run = [pc |-> "head", currentWorkers |-> 0, workerIndex |-> 0, ids |-> ids]
    /\ ctl = [pc |-> "runWait", result |-> Nil]
    /\ stopSignal = Nil
    /\ runSignal = <<>>
    /\ runFinished = FALSE
    /\ interrupting = FALSE
    /\ aborting = FALSE
    /\ received = {}
    /\ arrivals = 0

\* The same with the MaxWorkers ids of the model.
Started(c) == StartedWith(c, MaxWorkers)

Init ==
    /\ \E c \in Configs : Started(c)
    /\ observe = FALSE
    /\ others = <<>>
    /\ assigned = <<>>
    /\ buildRun = NotRun
    /\ file = NoFile
    /\ watch = Unwatched
    /\ fed = NotFed

Next ==
    \/ FeedRunnersHead
    \/ FeedRunner
    \/ \E w \in WorkerIds : ReceiveSlot(w)
    \/ \E w \in WorkerIds : GetBuild(w)
    \/ \E w \in WorkerIds : JobEnds(w)
    \/ \E w \in WorkerIds : AbortBuild(w)
    \/ \E w \in WorkerIds : WorkerHead(w)
    \/ StartWorkersHead
    \/ RunHead
    \/ \E w \in WorkerIds : RetireWorker(w)
    \/ SpawnWorker
    \/ UpdateWorkersDone
    \/ RunSignaled
    \/ CheckConfig
    \/ ReloadSignal
    \/ \E w \in WorkerIds : DrainWorker(w)
    \/ RunFinishes
    \/ InterruptRun
    \/ \E sig \in StopSignals : RunWait(sig)
    \/ \E sig \in StopSignals : GracefulSignal(sig)
    \/ GracefulFinished
    \/ \E sig \in StopSignals : ShutdownSignal(sig)
    \/ ShutdownTimeout
    \/ ShutdownFinished

Spec == Init /\ [][Next]_vars

\* The job driver under observation: the service in steady operation (no
\* signal, no reload) with MaxConcurrent workers, each keeping the calls of
\* its last processRunner until its next loop test.
InitJob ==
    /\ Started([Concurrent |-> MaxConcurrent, Limit |-> RunnerLimit])
    /\ observe = TRUE
    /\ others = <<>>
    /\ assigned = <<>>
    /\ buildRun = NotRun
    /\ file = NoFile
    /\ watch = Unwatched
    /\ fed = NotFed

NextJob ==
    \/ FeedRunnersHead
    \/ FeedRunner
    \/ \E w \in WorkerIds : ReceiveSlot(w)
    \/ \E w \in WorkerIds : GetBuild(w)
    \/ \E w \in WorkerIds : JobEnds(w)
    \/ \E w \in WorkerIds : WorkerHead(w)
    \/ StartWorkersHead
    \/ RunHead
    \/ SpawnWorker
    \/ UpdateWorkersDone

SpecJob == InitJob /\ [][NextJob]_vars

\* The service with one configuration throughout: no reload, so no worker is
\* retired before the shutdown.
InitStop ==
    /\ Started([Concurrent |-> MaxConcurrent, Limit |-> RunnerLimit])
    /\ observe = FALSE
    /\ others = <<>>
    /\ assigned = <<>>
    /\ buildRun = NotRun
    /\ file = NoFile
    /\ watch = Unwatched
    /\ fed = NotFed

NextStop ==
    \/ FeedRunnersHead
    \/ FeedRunner
    \/ \E w \in WorkerIds : ReceiveSlot(w)
    \/ \E w \in WorkerIds : GetBuild(w)
    \/ \E w \in WorkerIds : JobEnds(w)
    \/ \E w \in WorkerIds : AbortBuild(w)
    \/ \E w \in WorkerIds : WorkerHead(w)
    \/ StartWorkersHead
    \/ RunHead
    \/ SpawnWorker
    \/ UpdateWorkersDone
    \/ RunSignaled
    \/ \E w \in WorkerIds : DrainWorker(w)
    \/ RunFinishes
    \/ InterruptRun
    \/ \E sig \in StopSignals : RunWait(sig)
    \/ \E sig \in StopSignals : GracefulSignal(sig)
    \/ GracefulFinished
    \/ \E sig \in StopSignals : ShutdownSignal(sig)
    \/ ShutdownTimeout
    \/ ShutdownFinished

SpecStop == InitStop /\ [][NextStop]_vars

\* The aborter is a goroutine of its own in an endless loop: as long as an
\* executor is ready to receive from abortBuilds, its send goes through.
\* Nothing else is assumed to happen: jobs need not end, timers need not fire.
SpecAbortFair ==
    /\ InitStop
    /\ [][NextStop]_vars
    /\ \A w \in PoolIds : WF_vars(AbortBuild(w))

\* The timer of handleShutdown fires once ShutdownTimeout has elapsed. Nothing
\* else is assumed to happen: jobs need not end, Run need not finish.
SpecTimerFair ==
    /\ InitStop
    /\ [][NextStop]_vars
    /\ WF_vars(ShutdownTimeout)

\* The service in operation with no stop signal: the pool follows the reloads.
NextPool ==
    \/ FeedRunnersHead
    \/ FeedRunner
    \/ \E w \in WorkerIds : ReceiveSlot(w)
    \/ \E w \in WorkerIds : GetBuild(w)
    \/ \E w \in WorkerIds : JobEnds(w)
    \/ \E w \in WorkerIds : WorkerHead(w)
    \/ StartWorkersHead
    \/ RunHead
    \/ \E w \in WorkerIds : RetireWorker(w)
    \/ SpawnWorker
    \/ UpdateWorkersDone
    \/ CheckConfig
    \/ ReloadSignal

\* Running jobs end, polls return, and the goroutines of Run and of the
\* workers keep going; a worker's select takes one of its ready cases at
\* random, so a send on stopWorker that keeps finding some worker in its
\* select is taken in the end. The feeder and the reloads are free.
SpecPoolFair ==
    /\ Init
    /\ [][NextPool]_vars
    /\ \A w \in PoolIds :
          WF_vars(GetBuild(w)) /\ WF_vars(JobEnds(w)) /\ WF_vars(WorkerHead(w))
    /\ WF_vars(RunHead)
    /\ SF_vars(\E w \in WorkerIds : RetireWorker(w))

\* The service in operation with no stop signal and no job, its
\* configuration file tracked: the periodic check and SIGHUP read that file.
NextConfig ==
    \/ WriteFile
    \/ CheckConfigFile
    \/ ReloadSignalFile
    \/ \E w \in WorkerIds : WorkerHead(w)
    \/ StartWorkersHead
    \/ RunHead
    \/ \E w \in WorkerIds : RetireWorker(w)
    \/ SpawnWorker
    \/ UpdateWorkersDone

\* The file at the start is the one the active configuration was loaded from.
InitConfig ==
    /\ \E c \in Configs :
          /\ Started(c)
          /\ file = [mtime |-> 0, valid |-> TRUE, content |-> c]
    /\ watch = NoWatch
    /\ fed = NotFed
    /\ observe = FALSE
    /\ others = <<>>
    /\ assigned = <<>>
    /\ buildRun = NotRun

SpecConfig == InitConfig /\ [][NextConfig]_vars

\* The pool with one worker id more than Concurrent can ask for, so that
\* Concurrent can be raised again after it was lowered.
InitWorkers ==
    /\ \E c \in Configs : StartedWith(c, MaxIds)
    /\ observe = FALSE
    /\ others = <<>>
    /\ assigned = <<>>
    /\ buildRun = NotRun
    /\ file = NoFile
    /\ watch = Unwatched
    /\ fed = NotFed

SpecWorkers == InitWorkers /\ [][NextPool]_vars

\* The pool with reloads, the outcome of each load kept in watch.
InitReload ==
    /\ \E c \in Configs : Started(c)
    /\ observe = FALSE
    /\ others = <<>>
    /\ assigned = <<>>
    /\ buildRun = NotRun
    /\ file = NoFile
    /\ watch = NoWatch
    /\ fed = NotFed

SpecReload == InitReload /\ [][NextPool]_vars

\* The service in steady operation with fewer workers than runners: every
\* runner is healthy and has a provider, every Acquire succeeds, every poll
\* returns a job, which runs until it ends.
InitSteady ==
    /\ Started([Concurrent |-> Len(RunnerList) - 1, Limit |-> RunnerLimit])
    /\ observe = TRUE
    /\ others = <<>>
    /\ assigned = <<>>
    /\ buildRun = NotRun
    /\ file = NoFile
    /\ watch = Unwatched
    /\ fed = NotFed

\* feedRunner on a healthy runner with a provider whose Acquire succeeds.
FeedHealthy == FeedRunner /\ feeder'.pc = "send"

\* GetBuild returns a job, which is started and waited for.
ServeJob(w) == GetBuild(w) /\ workers'[w].pc = "wait"

NextSteady ==
    \/ FeedRunnersHead
    \/ FeedHealthy
    \/ \E w \in WorkerIds : ReceiveSlot(w)
    \/ \E w \in WorkerIds : ServeJob(w)
    \/ \E w \in WorkerIds : JobEnds(w)
    \/ \E w \in WorkerIds : WorkerHead(w)
    \/ StartWorkersHead
    \/ RunHead
    \/ SpawnWorker
    \/ UpdateWorkersDone

\* Every goroutine that can take a step takes one in the end (the feeder's
\* sleep ends, a blocked send is received by a worker that stays in its
\* select), and every job ends.
SpecSteadyFair ==
    /\ InitSteady
    /\ [][NextSteady]_vars
    /\ WF_vars(FeedRunnersHead) /\ WF_vars(FeedHealthy)
    /\ \A w \in WorkerIds :
          /\ WF_vars(ReceiveSlot(w)) /\ WF_vars(ServeJob(w))
          /\ WF_vars(JobEnds(w)) /\ WF_vars(WorkerHead(w))
    /\ WF_vars(StartWorkersHead) /\ WF_vars(RunHead)
    /\ WF_vars(SpawnWorker) /\ WF_vars(UpdateWorkersDone)

\* ----------------------------------------------- the registry on its own ----

\* The handles of the builds a registry may hold.
Owners == 1..MaxBuilds

\* The handles of the registered builds.
Registered == {builds[k].owner : k \in 1..Len(builds)}

\* mr.buildsHelper.addBuild(build), for a build of project p for runner r.
\* The new build takes the first handle not in use.
RegAdd(owner, r, p) ==
    /\ Len(builds) < MaxBuilds
    /\ owner \notin Registered
    /\ \A o \in Owners : o < owner => o \in Registered
    /\ builds' = addBuild(builds, NewBuild(owner, r, p))
    /\ UNCHANGED <<sysvars, others, assigned, buildRun, fed, file, watch>>

\* mr.buildsHelper.removeBuild(build)
RegRemove(owner) ==
    /\ owner \in Registered
    /\ builds' = removeBuild(builds, owner)
    /\ UNCHANGED <<sysvars, others, assigned, buildRun, fed, file, watch>>

NextReg ==
    \/ \E owner \in Owners, r \in Runners, p \in Projects : RegAdd(owner, r, p)
    \/ \E owner \in Owners : RegRemove(owner)

\* Any sequence of addBuild and removeBuild on an empty registry.
InitReg ==
    /\ Started([Concurrent |-> MaxConcurrent, Limit |-> RunnerLimit])
    /\ observe = FALSE
    /\ others = <<>>
    /\ assigned = <<>>
    /\ buildRun = NotRun
    /\ file = NoFile
    /\ watch = Unwatched
    /\ fed = NotFed

SpecReg == InitReg /\ [][NextReg]_vars

\* ----------------------------------------------- AssignID on its own ----

\* The builds AssignID may meet in otherBuilds: any runner, any project, any
\* ids up to MaxID.
OtherBuilds ==
    [owner : {0}, Runner : Runners, ProjectID : Projects,
     GlobalID : 0..MaxID, RunnerID : 0..MaxID, ProjectRunnerID : 0..MaxID]

RECURSIVE ListsUpTo(_, _)
ListsUpTo(S, n) ==
    IF n = 0 THEN {<<>>}
    ELSE LET shorter == ListsUpTo(S, n - 1)
         IN shorter \cup {Append(l, x) : l \in shorter, x \in S}

InitAssign ==
    /\ Started([Concurrent |-> MaxConcurrent, Limit |-> RunnerLimit])
    /\ observe = FALSE
    /\ others \in ListsUpTo(OtherBuilds, MaxOthers)
    /\ assigned = <<>>
    /\ buildRun = NotRun
    /\ file = NoFile
    /\ watch = Unwatched
    /\ fed = NotFed

\* b.AssignID(otherBuilds...) for a new build b of project p for runner r.
Assign(r, p) ==
    /\ assigned = <<>>
    /\ assigned' = <<AssignID(NewBuild(0, r, p), others)>>
    /\ UNCHANGED <<sysvars, builds, others, buildRun, fed, file, watch>>

NextAssign == \E r \in Runners, p \in Projects : Assign(r, p)

SpecAssign == InitAssign /\ [][NextAssign]_vars

\* ------------------------------------------------- Build.Run on its own ----

InitRun ==
    /\ Started([Concurrent |-> MaxConcurrent, Limit |-> RunnerLimit])
    /\ observe = FALSE
    /\ others = <<>>
    /\ assigned = <<>>
    /\ file = NoFile
    /\ watch = Unwatched
    /\ fed = NotFed
    /\ \E found \in BOOLEAN, prepareErr, startErr, waitErr \in Errors \cup {Nil} :
          buildRun = RunOf(found, prepareErr, startErr, waitErr)

\* Build.Run up to the call of executor.Wait, or to its return if it does
\* not get that far.
RunToWait ==
    /\ buildRun.pc = "called"
    /\ LET r == BuildRunStart(<<>>, buildRun.found, buildRun.prepareErr, buildRun.startErr)
       IN buildRun' = [buildRun EXCEPT !.calls = r.calls, !.err = r.err,
                             !.pc = IF r.waiting THEN "waiting" ELSE "returned"]
    /\ UNCHANGED <<sysvars, builds, others, assigned, file, watch, fed>>

\* executor.Wait returns; Build.Run goes on to its return.
RunFromWait ==
    /\ buildRun.pc = "waiting"
    /\ LET r == BuildRunFinish(buildRun.calls, buildRun.waitErr)
       IN buildRun' = [buildRun EXCEPT !.calls = r.calls, !.err = r.err, !.pc = "returned"]
    /\ UNCHANGED <<sysvars, builds, others, assigned, file, watch, fed>>

NextRun == RunToWait \/ RunFromWait

SpecRun == InitRun /\ [][NextRun]_vars

\* ------------------------------------------------------------- the claims ----

\* The workers between a successful buildsHelper.acquire and the matching
\* release, and those of them that run a slot of runner r.
InFlight == {w \in WorkerIds : workers[w].pc \in {"getbuild", "wait"}}

InFlightOf(r) == {w \in InFlight : workers[w].runner = r}

Count(calls, name) == Cardinality({i \in 1..Len(calls) : calls[i][1] = name})

\* Worker w has just returned from processRunner (observed runs only).
Returned(w) == workers[w].pc = "head" /\ workers[w].calls # <<>>

\* The exit path a returned worker took.
PathRefused(w) == Call("acquire", "refused") \in Range(workers[w].calls)
PathNoJob(w) == Call("GetBuild", Nil) \in Range(workers[w].calls)
PathSucceeded(w) == Count(workers[w].calls, "ProcessBuild") = 1 /\ workers[w].err = Nil
PathFailed(w) == Count(workers[w].calls, "ProcessBuild") = 1 /\ workers[w].err # Nil

\* The slots acquired from a provider and held somewhere in the process: the
\* one the feeder is sending, and those of the workers inside processRunner.
SlotsHeld == (IF feeder.pc = "send" THEN 1 ELSE 0) + Cardinality(InFlight)

\* C2: a worker that has returned from processRunner has called
\* provider.Release on its slot exactly once, whichever exit path it took
\* (acquire refused, no job, job succeeded, job failed); a worker still inside
\* processRunner has not released its slot; so the ExecutorData outstanding are
\* exactly the slots still held.
C2_ReleasedExactlyOnce ==
    /\ \A w \in WorkerIds :
          /\ Returned(w) =>
                /\ PathRefused(w) \/ PathNoJob(w) \/ PathSucceeded(w) \/ PathFailed(w)
                /\ Count(workers[w].calls, "Release") = 1
          /\ w \in InFlight => Count(workers[w].calls, "Release") = 0
    /\ outstanding = SlotsHeld

\* C2: one worker has returned from a failed job and the other from a refused
\* acquire.
C2_Witness ==
    \E w, v \in WorkerIds :
       /\ Returned(w) /\ PathFailed(w)
       /\ Returned(v) /\ PathRefused(v)

\* C4: a worker that has returned from processRunner has called
\* buildsHelper.release exactly once if its acquire succeeded (no job, job
\* succeeded, job failed) and not at all if it was refused; so the counter of
\* every runner is the number of workers inside processRunner for it.
C4_AcquireReleasePaired ==
    /\ \A w \in WorkerIds :
          Returned(w) =>
             Count(workers[w].calls, "release") = (IF PathRefused(w) THEN 0 ELSE 1)
    /\ \A r \in Runners : counts[r] = Cardinality(InFlightOf(r))

\* C4: one worker has returned from a job that succeeded, the other from a
\* poll that gave no job.
C4_Witness ==
    \E w, v \in WorkerIds :
       /\ Returned(w) /\ PathSucceeded(w)
       /\ Returned(v) /\ PathNoJob(v)

\* C8: a worker that has returned from a job has called trace.Fail exactly
\* once, with the error build.Run returned (nil when it returned nil).
C8_FailCarriesError ==
    \A w \in WorkerIds :
       (Returned(w) /\ Count(workers[w].calls, "ProcessBuild") = 1) =>
          /\ Count(workers[w].calls, "trace.Fail") = 1
          /\ Call("trace.Fail", workers[w].err) \in Range(workers[w].calls)

\* C3: when the service has shut down cleanly (Stop returned nil after Run
\* finished), every ExecutorData the feeder acquired has been released: none
\* is outstanding.
C3_ReleasedAtCleanExit ==
    (ctl.pc = "exited" /\ ctl.result = Nil) => outstanding = 0

\* C9: once SIGQUIT is recorded in stopSignal, no step is a successful
\* provider.Acquire of the feeder and no step completes a send on the slot
\* channel.
C9_NoSlotAfterSigquit ==
    [][stopSignal = "SIGQUIT" =>
          /\ outstanding' <= outstanding
          /\ ~(feeder.pc = "send" /\ feeder'.pc \in {"feed", "head"})]_vars

\* C10: the aborter (abortAllBuilds) runs only in handleShutdown and only
\* after a signal other than SIGQUIT was received; while the only signals
\* received are SIGQUIT nothing is sent on abortBuilds.
C10_NoAbortWhileGraceful ==
    aborting => (ctl.pc = "shutdown" /\ ~(received \subseteq {"SIGQUIT"}))

\* C10: in the graceful phase after a SIGQUIT, Run is draining its workers
\* while a job is still running.
C10_Witness ==
    /\ ctl.pc = "graceful"
    /\ received = {"SIGQUIT"}
    /\ run.pc = "drain"
    /\ \E w \in WorkerIds : workers[w].pc = "wait"

\* The scopes of the ids of build b: all the builds, those of b's runner,
\* those of b's runner and project.
SameRunner(a, b) == ShortDescription(a.Runner) = ShortDescription(b.Runner)

SameProject(a, b) == SameRunner(a, b) /\ a.ProjectID = b.ProjectID

\* C5: after any sequence of addBuild and removeBuild no two registered
\* builds have the same GlobalID, no two of the same runner the same
\* RunnerID, no two of the same runner and project the same ProjectRunnerID,
\* and so no two the same ProjectUniqueName.
C5_IDsUnique ==
    \A i, j \in 1..Len(builds) :
       i # j =>
          /\ builds[i].GlobalID # builds[j].GlobalID
          /\ SameRunner(builds[i], builds[j]) => builds[i].RunnerID # builds[j].RunnerID
          /\ SameProject(builds[i], builds[j]) =>
                builds[i].ProjectRunnerID # builds[j].ProjectRunnerID
          /\ ProjectUniqueName(builds[i]) # ProjectUniqueName(builds[j])

\* C5: the registry is full, two of its builds are of the same runner and
\* project, and a build registered later holds a smaller GlobalID than one
\* registered earlier (an id freed by removeBuild was taken again).
C5_Witness ==
    /\ Len(builds) = MaxBuilds
    /\ \E i, j \in 1..Len(builds) :
          /\ i < j
          /\ SameProject(builds[i], builds[j])
          /\ builds[i].GlobalID > builds[j].GlobalID

\* The ids in use in each scope of build b among the builds bs.
GlobalIDs(bs) == {bs[k].GlobalID : k \in 1..Len(bs)}

RunnerIDs(bs, b) == {bs[k].RunnerID : k \in {h \in 1..Len(bs) : SameRunner(bs[h], b)}}

ProjectRunnerIDs(bs, b) ==
    {bs[k].ProjectRunnerID : k \in {h \in 1..Len(bs) : SameProject(bs[h], b)}}

\* The ids of the builds bs are {0..n-1} in every scope, n being the number
\* of builds of the scope.
Gapless(bs) ==
    /\ GlobalIDs(bs) = 0..(Len(bs) - 1)
    /\ \A k \in 1..Len(bs) :
          /\ RunnerIDs(bs, bs[k]) =
                0..(Cardinality({h \in 1..Len(bs) : SameRunner(bs[h], bs[k])}) - 1)
          /\ ProjectRunnerIDs(bs, bs[k]) =
                0..(Cardinality({h \in 1..Len(bs) : SameProject(bs[h], bs[k])}) - 1)

\* C6 as stated: at any instant the ids in use are exactly {0..n-1} in every
\* scope, n being the number of registered builds of the scope, at most the
\* number of builds that may be registered at once.
C6_AsStated == Len(builds) <= MaxBuilds /\ Gapless(builds)

\* C6: at any instant every id is below the number of builds that may be
\* registered at once, and addBuild never opens a gap: if the ids are
\* {0..n-1} in every scope before an addBuild they are so after it. Only
\* removeBuild leaves a gap, which lasts until an addBuild takes the id again.
C6_GapsOnlyFromRemove ==
    /\ [](\A k \in 1..Len(builds) :
             /\ builds[k].GlobalID < MaxBuilds
             /\ builds[k].RunnerID < MaxBuilds
             /\ builds[k].ProjectRunnerID < MaxBuilds)
    /\ [][(Len(builds') > Len(builds) /\ Gapless(builds)) => Gapless(builds')]_vars

\* C6: a removeBuild has left a gap: the registry is not empty and GlobalID 0
\* is not in use.
C6_Witness == builds # <<>> /\ 0 \notin GlobalIDs(builds)

\* The smallest non-negative integer not in S.
SmallestFree(S) ==
    CHOOSE n \in 0..Cardinality(S) : n \notin S /\ \A m \in 0..(n - 1) : m \in S

\* C7: for every build b and every list of other builds, AssignID gives b as
\* GlobalID the smallest non-negative integer no other build uses as
\* GlobalID, as RunnerID the smallest none of the same runner uses as
\* RunnerID, as ProjectRunnerID the smallest none of the same runner and
\* project uses as ProjectRunnerID, each whatever the other two.
C7_SmallestFreePerScope ==
    assigned # <<>> =>
       LET b == assigned[1]
       IN /\ b.GlobalID = SmallestFree(GlobalIDs(others))
          /\ b.RunnerID = SmallestFree(RunnerIDs(others, b))
          /\ b.ProjectRunnerID = SmallestFree(ProjectRunnerIDs(others, b))

\* C7: AssignID has given a build three different ids.
C7_Witness ==
    /\ assigned # <<>>
    /\ assigned[1].GlobalID > assigned[1].RunnerID
    /\ assigned[1].RunnerID > assigned[1].ProjectRunnerID

\* C11: throughout the forced phase the aborter is running, and it stays so
\* until the process exits; every job that is waiting on abortBuilds while the
\* aborter runs eventually stops waiting (it receives an abort value, unless
\* it ends by itself or the process exits first).
C11_AbortReachesEveryJob ==
    /\ [](ctl.pc = "shutdown" => aborting)
    /\ [][(aborting /\ ctl'.pc # "exited") => aborting']_vars
    /\ \A w \in PoolIds :
          (aborting /\ workers[w].pc = "wait") ~> (workers[w].pc # "wait")

\* C11: SIGTERM has started the forced phase while every worker has a job
\* waiting on abortBuilds.
C11_Witness ==
    /\ ctl.pc = "shutdown"
    /\ received = {"SIGTERM"}
    /\ aborting
    /\ \A w \in PoolIds : workers[w].pc = "wait"

\* C12: once handleShutdown is entered Stop returns, whatever the jobs and
\* Run do: with nil only if runFinished was there to receive, with the
\* 'forced exit' error naming the signal only on the arrival of a further
\* signal, which is the one named, and with 'shutdown timedout' otherwise.
C12_StopReturns ==
    /\ (ctl.pc = "shutdown") ~> (ctl.pc = "exited")
    /\ [][(ctl.pc = "shutdown" /\ ctl'.pc = "exited") =>
             \/ ctl'.result = Nil /\ runFinished /\ arrivals' = arrivals
             \/ /\ arrivals' = arrivals + 1
                /\ stopSignal' \in StopSignals
                /\ ctl'.result = ForcedExit(stopSignal')
             \/ ctl'.result = TimedOut /\ arrivals' = arrivals]_vars

\* C12: Stop has returned 'shutdown timedout' although an ExecutorData was
\* still out (a job had not ended or the feeder held a slot).
C12_Witness ==
    /\ ctl.pc = "exited"
    /\ ctl.result = TimedOut
    /\ outstanding > 0

\* C13: in the graceful phase the arrival of any further signal takes the
\* shutdown to the forced phase.
C13_FurtherSignalEscalates ==
    [][(ctl.pc = "graceful" /\ arrivals' = arrivals + 1) => ctl'.pc = "shutdown"]_vars

\* The workers started and not yet stopped.
LiveWorkers == {w \in WorkerIds : workers[w].pc \notin {"unborn", "exited", Killed}}

\* C14: when a reload has left more live workers than Concurrent, the
\* number of live workers eventually comes down to Concurrent (running jobs
\* ending); a worker stops only by receiving stopWorker where it waits for
\* it, in its select or past its loop, never inside processRunner; and the
\* step that replaces the configuration touches no worker, no registered
\* build and not the aborter.
C14_LoweringRetiresIdleWorkers ==
    /\ (Cardinality(LiveWorkers) > config.Concurrent)
          ~> (Cardinality(LiveWorkers) <= config.Concurrent)
    /\ [][\A w \in WorkerIds :
             (workers[w].pc # "exited" /\ workers'[w].pc = "exited") =>
                workers[w].pc \in {"select", "final"}]_vars
    /\ [][config' # config =>
             (workers' = workers /\ builds' = builds /\ aborting' = aborting)]_vars
    /\ [](~aborting)

\* C14: after a reload to Concurrent 1 one worker has been retired while the
\* other is running a job.
C14_Witness ==
    /\ config.Concurrent = 1
    /\ Cardinality(LiveWorkers) = 1
    /\ \E w, v \in WorkerIds : workers[w].pc = "exited" /\ workers[v].pc = "wait"

\* The names of the calls, in order.
Names(calls) == [i \in 1..Len(calls) |-> calls[i][1]]

\* The first error among what Prepare, Start and Wait return in this call of
\* Build.Run, a later one counting only if it is reached; nil if none.
FirstError ==
    IF buildRun.prepareErr # Nil THEN buildRun.prepareErr
    ELSE IF buildRun.startErr # Nil THEN buildRun.startErr
    ELSE buildRun.waitErr

\* C15: when Build.Run has returned with an executor present, its calls were
\* Prepare, then Start only if Prepare returned nil, then Wait only if Start
\* too returned nil, then Finish once with the first error (nil if none), then
\* Cleanup once, and it returned that same error; while it waits in Wait
\* neither Finish nor Cleanup has been called.
C15_RunOrder ==
    /\ (buildRun.pc = "returned" /\ buildRun.found) =>
          /\ Names(buildRun.calls) =
                <<"Prepare">>
                \o (IF buildRun.prepareErr = Nil THEN <<"Start">> ELSE <<>>)
                \o (IF buildRun.prepareErr = Nil /\ buildRun.startErr = Nil
                    THEN <<"Wait">> ELSE <<>>)
                \o <<"Finish", "Cleanup">>
          /\ Call("Finish", FirstError) \in Range(buildRun.calls)
          /\ buildRun.err = FirstError
    /\ buildRun.pc = "waiting" => Names(buildRun.calls) = <<"Prepare", "Start", "Wait">>

\* C15: Build.Run has returned after Start failed, Wait (which would have
\* failed otherwise) not being called.
C15_Witness ==
    /\ buildRun.pc = "returned"
    /\ buildRun.found
    /\ buildRun.prepareErr = Nil
    /\ buildRun.startErr = "failed"
    /\ buildRun.waitErr = "timeout"


\* C16: a periodic check loads the file only when its mtime is strictly after
\* the loaded one; when that load fails the active configuration stays, the
\* stored mtime becomes the file's, and no later periodic check tries the file
\* again while its mtime is the one the load failed at.
C16_FailedLoadNotRetried ==
    [][(run.pc = "updateConfig" /\ watch'.last \in {"check:stat", "check:skip",
                                                   "check:load", "check:fail"}
        /\ run'.pc = "head")
       => /\ watch'.last \in {"check:load", "check:fail"}
               => watch.modTime < file.mtime
          /\ ~(watch.modTime < file.mtime) => config' = config
          /\ watch'.last = "check:fail"
               => config' = config /\ watch'.modTime = file.mtime
          /\ watch.failedAt = file.mtime
               => watch'.last \in {"check:stat", "check:skip"} /\ config' = config]_vars

\* A periodic check passes over a changed file whose load failed at its
\* present mtime, the first configuration still active.
C16_Witness ==
    /\ watch.last = "check:skip"
    /\ watch.failedAt = file.mtime
    /\ file.mtime > 0
    /\ file.content # config
    /\ run.pc = "head"


\* C17: once a signal has been recorded in stopSignal, no later signal
\* changes it: stopSignal keeps the first signal for the rest of the process.
C17_KeepsFirstSignal ==
    [][stopSignal # Nil => stopSignal' = stopSignal]_vars


\* C18: once a stop signal is recorded and interruptRun pumps runSignal, no
\* loop stays blocked forever on a channel: startWorkers is never left in its
\* receive from startWorker once Run is past its main loop (the only sender),
\* and feedRunners is never left in its send on runners once Run is past its
\* main loop and no worker is left to receive.
C18_NoLoopBlockedForever ==
    (stopSignal # Nil /\ interrupting /\ run.pc \in {"drain", "done"})
       => /\ starter # "recv"
          /\ ~(/\ feeder.pc = "send"
               /\ \A w \in WorkerIds : workers[w].pc \in {"unborn", "exited"})


\* C19: currentWorkers is at all times the number of workers started and not
\* yet stopped by a stopWorker message; a worker takes such a message at most
\* once, each one taken lowers currentWorkers by one; Run sends runFinished
\* once, when every worker it started has taken its message, so that no
\* worker is inside processRunner then, and sends nothing after it.
C19_RunFinishedAfterWorkers ==
    /\ [](Alive => run.currentWorkers = Cardinality(LiveWorkers))
    /\ [][\A w \in WorkerIds :
             /\ workers[w].pc = "exited" => workers'[w].pc \in {"exited", Killed}
             /\ (workers[w].pc # "exited" /\ workers'[w].pc = "exited")
                   => /\ workers[w].pc \in {"select", "final"}
                      /\ run'.currentWorkers = run.currentWorkers - 1]_vars
    /\ [][(~runFinished /\ runFinished')
             => /\ run.pc = "drain" /\ run'.pc = "done"
                /\ \A w \in WorkerIds : workers[w].pc \in {"unborn", "exited"}
                /\ InFlight = {}]_vars
    /\ [][run.pc = "done" => /\ run'.pc \in {"done", Killed}
                             /\ runFinished' => runFinished]_vars

\* Run has sent runFinished after stopping every worker id it could start,
\* one of which had been through processRunner (a poll that failed).
C19_Witness ==
    /\ runFinished
    /\ run.pc = "done"
    /\ \A w \in PoolIds : workers[w].pc = "exited"
    /\ \E r \in Runners : health[r]


\* The places of the calls of that name in a call log.
Places(calls, name) == {i \in 1..Len(calls) : calls[i][1] = name}

\* C20: in the calls of a worker that has returned from processRunner with a
\* trace opened, the terminal trace call comes after executor.Finish and is
\* the last call of all: removeBuild, buildsHelper.release and
\* provider.Release are not made after it.
C20_TraceCallIsLast ==
    \A w \in WorkerIds :
       (Returned(w) /\ Count(workers[w].calls, "ProcessBuild") = 1) =>
          \A t \in Places(workers[w].calls, "trace.Fail") :
             /\ \A f \in Places(workers[w].calls, "Finish") : f < t
             /\ \A name \in {"removeBuild", "release", "Release"} :
                   \A i \in Places(workers[w].calls, name) : i < t
             /\ t = Len(workers[w].calls)


\* C21: a worker calls buildsHelper.acquire only on a slot that the feeder
\* got from provider.Acquire and is handing over; in the calls of a worker
\* that has returned from processRunner, a granted acquire is followed by one
\* buildsHelper.release and that by the one provider.Release, and addBuild,
\* where made, is followed by exactly one removeBuild, on every exit path.
C21_AcquireReleaseOrder ==
    /\ [][\A w \in WorkerIds :
             (workers[w].pc = "select" /\ workers'[w].pc \in {"getbuild", "head"})
                => /\ feeder.pc = "send"
                   /\ fed.acquire = "ok" /\ fed.emitted
                   /\ fed.runner = feeder.slot.runner
                   /\ outstanding > 0
                   /\ workers'[w].calls[1][1] = "acquire"]_vars
    /\ [](\A w \in WorkerIds :
             Returned(w) =>
                LET calls == workers[w].calls IN
                /\ Count(calls, "Release") = 1
                /\ Count(calls, "release") = Cardinality({i \in Places(calls, "acquire") :
                                                             calls[i][2] = "ok"})
                /\ \A i \in Places(calls, "release") :
                      /\ \A j \in Places(calls, "acquire") : j < i
                      /\ \A j \in Places(calls, "Release") : i < j
                /\ Count(calls, "addBuild") <= 1
                /\ Count(calls, "removeBuild") = Count(calls, "addBuild")
                /\ \A i \in Places(calls, "addBuild") :
                      \A j \in Places(calls, "removeBuild") : i < j)

\* A worker is back from a job that failed, its build added and removed,
\* while another worker was refused by buildsHelper.acquire.
C21_Witness ==
    \E w, v \in WorkerIds :
       /\ Returned(w) /\ PathFailed(w)
       /\ Count(workers[w].calls, "addBuild") = 1
       /\ Count(workers[w].calls, "removeBuild") = 1
       /\ Returned(v) /\ PathRefused(v)


\* The calls by which processRunner takes a job up.
JobCalls == {"ProcessBuild", "addBuild", "Prepare", "Start", "Wait", "Finish", "Cleanup"}

\* C22: a worker makes the calls that take a job up (ProcessBuild, addBuild,
\* the executor's) only after a granted buildsHelper.acquire and a GetBuild
\* that returned a job; the step in which acquire is refused calls neither
\* GetBuild nor makeHealthy and leaves the health map and the registered
\* builds as they are; the step in which GetBuild returns no job sets the
\* runner's health to the flag returned, leaves the other runners' health
\* and the registered builds as they are, and takes no job up.
C22_JobOnlyAfterAcquireAndGetBuild ==
    /\ [](\A w \in WorkerIds :
             LET calls == workers[w].calls IN
             /\ (\E n \in JobCalls : Count(calls, n) > 0)
                   => /\ calls[1] = Call("acquire", "ok")
                      /\ calls[2][1] = "GetBuild" /\ calls[2][2] \in ServerProjects
                      /\ \A n \in JobCalls : \A i \in Places(calls, n) : i > 3
             /\ Call("acquire", "refused") \in Range(calls)
                   => \A i \in 1..Len(calls) : calls[i][1] \in {"acquire", "Release"})
    /\ [][\A w \in WorkerIds :
             /\ (workers[w].pc = "select" /\ workers'[w].pc = "head")
                   => /\ PathRefused(w)'
                      /\ health' = health /\ builds' = builds /\ counts' = counts
             /\ (workers[w].pc = "getbuild" /\ workers'[w].pc = "head"
                   /\ Call("GetBuild", Nil) \in Range(workers'[w].calls))
                   => /\ builds' = builds
                      /\ \E flag \in BOOLEAN :
                            /\ workers'[w].calls[3] =
                                  Call("makeHealthy", IF flag THEN "true" ELSE "false")
                            /\ health' = [health EXCEPT ![workers[w].runner] = ~flag]
                      /\ \A n \in JobCalls : Count(workers'[w].calls, n) = 0]_vars

\* One worker is back from a refused acquire, another from a poll that gave
\* no job and an unhealthy flag, which is on record.
C22_Witness ==
    \E w, v \in WorkerIds :
       /\ Returned(w) /\ PathRefused(w)
       /\ Returned(v) /\ PathNoJob(v)
       /\ Call("makeHealthy", "false") \in Range(workers[v].calls)
       /\ \E r \in Runners : health[r]


\* C23: when updateWorkers returns nil the live workers are as many as
\* Concurrent of the active configuration; while it runs it stops a worker
\* only when there are more and starts one only when there are fewer, the
\* worker started getting an id that no worker has had before (as long as
\* the process lives).
C23_PoolFollowsConcurrent ==
    /\ [][(run.pc = "updateWorkers" /\ run'.pc = "updateConfig")
             => /\ Cardinality(LiveWorkers) = config.Concurrent
                /\ workers' = workers]_vars
    /\ [][(run.pc = "updateWorkers" /\ ctl'.pc # "exited") =>
             \A w \in WorkerIds :
                /\ (workers[w].pc # "exited" /\ workers'[w].pc = "exited")
                      => /\ Cardinality(LiveWorkers) > config.Concurrent
                         /\ Cardinality(LiveWorkers') = Cardinality(LiveWorkers) - 1
                /\ (workers[w].pc = "unborn" /\ workers'[w].pc # "unborn")
                      => /\ Cardinality(LiveWorkers) < config.Concurrent
                         /\ Cardinality(LiveWorkers') = Cardinality(LiveWorkers) + 1
                         /\ w = run.workerIndex
                         /\ \A v \in WorkerIds : v < w <=> workers[v].pc # "unborn"]_vars
    /\ [][ctl'.pc # "exited" =>
             \A w \in WorkerIds :
                /\ workers[w].pc # "unborn" => workers'[w].pc # "unborn"
                /\ workers[w].pc = "exited" => workers'[w].pc = "exited"]_vars

\* updateWorkers has returned after Concurrent went down and up again: a
\* worker was retired and a later one started under the last id.
C23_Witness ==
    /\ run.pc = "updateConfig"
    /\ config.Concurrent = MaxConcurrent
    /\ Cardinality(LiveWorkers) = MaxConcurrent
    /\ \E w \in WorkerIds : workers[w].pc = "exited"
    /\ workers[MaxIds - 1].pc \notin {"unborn", "exited"}


\* C24: the call of feedRunner that emits a slot found the runner healthy,
\* got a provider and a successful provider.Acquire; one that finds the
\* runner unhealthy or gets no provider does not call provider.Acquire; a
\* failed Acquire emits nothing. Seen on the steps of the feeder: a runner
\* with a failure on record that stays on record gets no Acquire and no
\* slot, and a slot is put up for sending only together with its Acquire.
C24_SlotOnlyAfterChecks ==
    /\ [](/\ fed.emitted => (fed.healthy /\ fed.provider /\ fed.acquire = "ok")
          /\ fed.acquire # "none" => (fed.healthy /\ fed.provider)
          /\ fed.acquire = "failed" => ~fed.emitted)
    /\ [][(feeder.pc = "feed" /\ feeder' # feeder) =>
             LET r == RunnerList[feeder.i] IN
             /\ fed'.runner = r
             /\ (health[r] /\ health'[r])
                   => fed'.acquire = "none" /\ ~fed'.healthy
             /\ fed'.emitted <=> feeder'.pc = "send"
             /\ fed'.emitted <=> outstanding' = outstanding + 1
             /\ ~fed'.emitted => outstanding' = outstanding
             /\ feeder'.pc = "send" => feeder'.slot.runner = r]_vars

\* The feeder has just passed over a runner with a failure on record,
\* after it had emitted a slot earlier (a worker holds it).
C24_Witness ==
    /\ fed.runner # Nil
    /\ ~fed.healthy
    /\ fed.acquire = "none"
    /\ health[fed.runner]
    /\ InFlight # {}


\* C25: a call of feedRunner whose provider would answer CanCreate() = false
\* does not call provider.Acquire and emits no slot.
C25_SkipsWhenCannotCreate ==
    (fed.provider /\ ~fed.canCreate) => (fed.acquire = "none" /\ ~fed.emitted)


\* Every runner is considered healthy: no failure is on record.
AllHealthy == [r \in Runners |-> FALSE]

\* C26: a load of the configuration that succeeds, on the periodic check or
\* on the reload signal, replaces the active configuration and leaves no
\* failure on record for any runner; one that fails, and a periodic check
\* that loads nothing, leave the active configuration and the health map as
\* they are. After the load at startup no failure is on record either.
C26_LoadClearsHealth ==
    /\ []((run.pc = "head" /\ run.workerIndex = 0 /\ watch.last = "none")
            => health = AllHealthy)
    /\ [][(run.pc = "updateConfig" /\ run'.pc = "head") =>
             /\ watch'.last \in {"check:load", "hup:load"}
                   => config' \in Configs /\ health' = AllHealthy
             /\ watch'.last \in {"check:fail", "hup:fail", "check:skip"}
                   => config' = config /\ health' = health
             /\ config' # config
                   => watch'.last \in {"check:load", "hup:load"}]_vars

\* A reload signal has just replaced the configuration by one with another
\* Concurrent while a job was running; no failure is on record.
C26_Witness ==
    /\ watch.last = "hup:load"
    /\ run.pc = "head"
    /\ config.Concurrent # Cardinality(LiveWorkers)
    /\ \E w \in WorkerIds : workers[w].pc = "wait"
    /\ health = AllHealthy


=============================================================================
